---- MODULE Spec2Model ----
(***************************************************************************)
(* Model of the batched PostgreSQL persister of armiarma                   *)
(* (package postgresql: NewDBClient, launchPersister, Close, PersistToDB). *)
(*                                                                         *)
(* Many producers call PersistToDB, which sends a record on the buffered   *)
(* channel persistC.  One persister goroutine receives the records, maps   *)
(* each one to SQL queries, queues them in a pgx.Batch and runs the batch  *)
(* in one transaction when it holds batchSize queries or when the ticker   *)
(* fires.  Close() hands a value over the unbuffered channel doneC, waits  *)
(* on the WaitGroup, closes the pool and closes persistC.                  *)
(***************************************************************************)
EXTENDS Integers, Sequences, FiniteSets, TLC

\* ------------------------------------------------------------------------
\* Bounds of the model.

\* batchSize of the source (256), scaled down: the capacity of persistC and
\* the number of queued queries that makes the batch ready to persist.
batchSize == 2

\* Records handed to PersistToDB in one run, over all producers.
MaxRecords == 3

\* Store calls that fail although the context is alive, in one run.
MaxFailures == 1

\* The goroutines that call PersistToDB.
Producers == {"p1", "p2"}

\* ------------------------------------------------------------------------
\* Records and queries.

NoRecord == [kind |-> "none"]

\* The attribute types a HostInfo.Attr map can hold; "Other" is any type
\* the persister's inner type switch does not know.
AttrTypes == {"BeaconStatusStamped", "BeaconMetadataStamped", "EnrNode", "Other"}

\* The shapes of the records the producers hand over.  "Unknown" is an
\* object of a type the persister's type switch does not know.
RecordShapes ==
    { [kind |-> "PeerInfo", identified |-> FALSE, attrs |-> {}],
      [kind |-> "ConnEvent", identified |-> FALSE, attrs |-> {}],
      [kind |-> "Unknown", identified |-> FALSE, attrs |-> {}] }

\* A record as sent: its shape, the producer and the producer's counter.
MkRecord(shape, p, n) ==
    [kind |-> shape.kind, identified |-> shape.identified,
     attrs |-> shape.attrs, prod |-> p, seq |-> n]

\* A queued query: the statement and the record its arguments come from.
Query(stmt, rec) == [stmt |-> stmt, prod |-> rec.prod, seq |-> rec.seq]

RECURSIVE Flatten(_)
Flatten(lists) ==
    IF lists = <<>> THEN <<>> ELSE Head(lists) \o Flatten(Tail(lists))

IsPrefix(s, t) ==
    /\ Len(s) <= Len(t)
    /\ \A i \in 1..Len(s) : s[i] = t[i]

\* All orders in which the elements of a finite set can be enumerated.
RECURSIVE Orders(_)
Orders(S) ==
    IF S = {} THEN {<<>>}
    ELSE UNION { { <<x>> \o rest : rest \in Orders(S \ {x}) } : x \in S }

\* ------------------------------------------------------------------------
\* The type switch of the persister: the queries one record adds to the
\* batch.  Ranging over the Attr map of a HostInfo visits its entries in an
\* order Go leaves open, so a record has a set of possible query lists.

AttrQueries(att, rec) ==
    CASE att = "BeaconStatusStamped" -> << Query("UpsertEthereumNodeStatus", rec) >>
      [] att = "BeaconMetadataStamped" -> << Query("UpsertEthereumNodeMetadata", rec) >>
      [] att = "EnrNode" -> << Query("UpsertEnrInfo", rec) >>
      [] OTHER -> << >>

HostInfoQueriesAlwaysPeerInfo(rec) ==
    { << Query("UpsertHostInfo", rec), Query("UpdatePeerInfo", rec) >>
        \o Flatten([i \in 1..Len(o) |-> AttrQueries(o[i], rec)])
      : o \in Orders(rec.attrs) }

HostInfoQueries(rec) ==
    { << Query("UpsertHostInfo", rec) >>
        \o (IF rec.identified THEN << Query("UpdatePeerInfo", rec) >> ELSE << >>)
        \o Flatten([i \in 1..Len(o) |-> AttrQueries(o[i], rec)])
      : o \in Orders(rec.attrs) }

RecordQueriesDefaultQueues(rec) ==
    CASE rec.kind = "PeerInfo" -> { << Query("UpdatePeerInfo", rec) >> }
      [] rec.kind = "ConnEvent" ->
            { << Query("InsertNewConnEvent", rec),
                 Query("UpdateLastActivityTimestamp", rec) >> }
      [] OTHER -> { << Query("Unrecognized", rec) >> }

RecordQueries(rec) ==
    CASE rec.kind = "HostInfo" -> HostInfoQueries(rec)
      [] rec.kind = "PeerInfo" -> { << Query("UpdatePeerInfo", rec) >> }
      [] rec.kind = "ConnectionAttempt" -> { << Query("UpdateConnAttempt", rec) >> }
      [] rec.kind = "ConnEvent" ->
            { << Query("InsertNewConnEvent", rec),
                 Query("UpdateLastActivityTimestamp", rec) >> }
      [] rec.kind = "IpInfo" -> { << Query("UpsertIpInfo", rec) >> }
      [] OTHER -> { << >> }

batchQueryFnPrepends(b, qs) == qs \o b

\* batchQueryFn, applied to the queries of one record in turn: batch.Queue
\* puts each query at the end of the batch.
batchQueryFn(b, qs) == b \o qs

isReadyToPersistFnStrict(b) == Len(b) > batchSize

isReadyToPersistFn(b) == Len(b) >= batchSize

\* ------------------------------------------------------------------------
\* State.

VARIABLES
    ctorPc,         \* NewDBClient: "start", then "ok" or "err"
    ctorErr,        \* the error NewDBClient returned, "none" if none
    storeContacted, \* the store was called at least once
    persistC,       \* the records buffered in channel persistC
    chanClosed,     \* close(c.persistC) was executed
    wg,             \* the counter of the WaitGroup
    cancelled,      \* c.ctx is done
    ppc,            \* where the persister goroutine is
    readyToFinish,  \* the persister's local flag
    batch,          \* the queries queued in the open pgx.Batch
    trigger,        \* what called persistBatchFn: "size", "tick" or "none"
    openTx,         \* transactions begun and neither committed nor rolled back
    poolClosed,     \* psqlPool.Close() was executed
    closePc,        \* where the Close() call is
    pending,        \* per producer: the record of its blocked PersistToDB call
    nextSeq,        \* per producer: records handed to PersistToDB so far
    panicked,       \* per producer: its send hit the closed channel
    accepted,       \* history: records whose PersistToDB call returned
    dequeued,       \* history: records the persister received
    mappedLists,    \* history: the query list appended for each received record
    attempts,       \* history: the non-empty batches persistBatchFn was called
                    \* with, each with what triggered the call
    executed,       \* history: the queries of the committed transactions
    failures,       \* history: store calls that failed with a live context
    drainFrom,      \* history: how many records had been received when the
                    \* persister set readyToFinish, -1 before
    lastRet         \* err of the persistBatchFn call of this loop iteration:
                    \* "nil" or "err", "none" when there was no call

vars == << ctorPc, ctorErr, storeContacted, persistC, chanClosed, wg, cancelled,
           ppc, readyToFinish, batch, trigger, openTx, poolClosed,
           closePc, pending, nextSeq, panicked, accepted, dequeued, mappedLists,
           attempts, executed, failures, drainFrom, lastRet >>

ctorVars == << ctorPc, ctorErr >>
chanVars == << persistC, chanClosed >>
loopVars == << ppc, readyToFinish, batch, trigger >>
closeVars == << closePc, poolClosed >>
prodVars == << pending, nextSeq, panicked, accepted >>
histVars == << dequeued, mappedLists, attempts, executed, failures, drainFrom,
              lastRet >>

RECURSIVE SumOver(_, _)
SumOver(f, S) ==
    IF S = {} THEN 0
    ELSE LET x == CHOOSE y \in S : TRUE IN f[x] + SumOver(f, S \ {x})

Handed == SumOver(nextSeq, Producers)

Init ==
    /\ ctorPc = "start"
    /\ ctorErr = "none"
    /\ storeContacted = FALSE
    /\ persistC = << >>
    /\ chanClosed = FALSE
    /\ wg = 0
    /\ cancelled = FALSE
    /\ ppc = "none"
    /\ readyToFinish = FALSE
    /\ batch = << >>
    /\ trigger = "none"
    /\ openTx = 0
    /\ poolClosed = FALSE
    /\ closePc = "idle"
    /\ pending = [p \in Producers |-> NoRecord]
    /\ nextSeq = [p \in Producers |-> 0]
    /\ panicked = [p \in Producers |-> FALSE]
    /\ accepted = << >>
    /\ dequeued = << >>
    /\ mappedLists = << >>
    /\ attempts = << >>
    /\ executed = << >>
    /\ failures = 0
    /\ drainFrom = -1
    /\ lastRet = "none"

\* ------------------------------------------------------------------------
\* NewDBClient.  The inputs are the login string being empty, and what
\* pgxpool.Connect, Ping and initTables answer.

\* The error NewDBClient returns, "none" on the success path.
NewDBClientError(loginEmpty, connectOk, pingOk, initialized, initOk) ==
    IF loginEmpty THEN "emptyLogin"
    ELSE IF ~connectOk THEN "connect"
    ELSE IF ~pingOk THEN "ping"
    ELSE IF initialized /\ ~initOk THEN "initTables"
    ELSE "none"

NewDBClientLaunchesBeforeInit(loginEmpty, connectOk, pingOk, initialized, initOk) ==
    /\ ~loginEmpty
    /\ connectOk
    /\ pingOk

\* go dbClient.launchPersister() is reached.
NewDBClientLaunches(loginEmpty, connectOk, pingOk, initialized, initOk) ==
    /\ ~loginEmpty
    /\ connectOk
    /\ pingOk
    /\ (initialized => initOk)

NewDBClient ==
    /\ ctorPc = "start"
    /\ \E loginEmpty, connectOk, pingOk, initialized, initOk \in BOOLEAN :
        LET err == NewDBClientError(loginEmpty, connectOk, pingOk, initialized, initOk)
        IN /\ ctorErr' = err
           /\ ctorPc' = IF err = "none" THEN "ok" ELSE "err"
           /\ storeContacted' = ~loginEmpty
           /\ ppc' = IF NewDBClientLaunches(loginEmpty, connectOk, pingOk,
                                            initialized, initOk)
                     THEN "launched" ELSE "none"
    /\ UNCHANGED << chanVars, wg, cancelled, readyToFinish, batch, trigger,
                    openTx, closeVars, prodVars, histVars >>

\* ------------------------------------------------------------------------
\* The persister: launchPersister and the goroutine it starts.

Running == ppc \in {"loopTop", "mainSelect", "persist", "txOpen"}

\* launchPersister: wg.Add(1), then the goroutine with the loop starts and
\* creates the ticker.
launchPersister ==
    /\ ppc = "launched"
    /\ wg' = wg + 1
    /\ ppc' = "loopTop"
    /\ UNCHANGED << ctorVars, storeContacted, chanVars, cancelled, readyToFinish,
                    batch, trigger, openTx, closeVars, prodVars,
                    histVars >>

LoopExitsNever(ready, queued) == FALSE

LoopExitsOnEmptyQueue(ready, queued) == queued = 0

LoopExitsIgnoresQueue(ready, queued) == ready

\* The exit test at the top of persistingLoop.
LoopExits(ready, queued) == ready /\ queued = 0

\* One turn of persistingLoop up to the second select.  The exit test
\* leaves the loop (the deferred wg.Done() runs) or goes on to the first
\* select: ctx.Done(), doneC, or default when neither is ready; when both
\* are ready Go takes either.  Receiving from doneC releases the Close()
\* call blocked in its send.  The err of the previous turn's persistBatchFn
\* call is out of scope.  A test that goes on stays true whatever the other
\* goroutines do before the select, so both are one step.
LoopTop ==
    /\ ppc = "loopTop"
    /\ IF LoopExits(readyToFinish, Len(persistC))
       THEN /\ ppc' = "stopped"
            /\ wg' = wg - 1
            /\ UNCHANGED << readyToFinish, closePc >>
       ELSE /\ ppc' = "mainSelect"
            /\ UNCHANGED wg
            /\ \/ /\ cancelled
                  /\ readyToFinish' = TRUE
                  /\ UNCHANGED closePc
               \/ /\ closePc = "sendDone"
                  /\ readyToFinish' = TRUE
                  /\ closePc' = "wgWait"
               \/ /\ ~cancelled
                  /\ closePc # "sendDone"
                  /\ UNCHANGED << readyToFinish, closePc >>
    /\ drainFrom' = IF readyToFinish' /\ ~readyToFinish THEN Len(dequeued)
                    ELSE drainFrom
    /\ lastRet' = "none"
    /\ UNCHANGED << ctorVars, storeContacted, chanVars, cancelled, batch, trigger,
                    openTx, poolClosed, prodVars, dequeued, mappedLists,
                    attempts, executed, failures >>

\* The record a receive on persistC yields.
Received(q) == Head(q)

\* The second select, case obj := <-c.persistC: the type switch queues the
\* record's queries, then the batch is persisted if it is ready.
Dequeue ==
    /\ ppc = "mainSelect"
    /\ persistC # << >>
    /\ LET obj == Received(persistC) IN
       \E qs \in RecordQueries(obj) :
          /\ persistC' = Tail(persistC)
          /\ batch' = batchQueryFn(batch, qs)
          /\ dequeued' = Append(dequeued, obj)
          /\ mappedLists' = Append(mappedLists, qs)
          /\ IF isReadyToPersistFn(batchQueryFn(batch, qs))
             THEN /\ ppc' = "persist"
                  /\ trigger' = "size"
             ELSE /\ ppc' = "loopTop"
                  /\ trigger' = "none"
    /\ UNCHANGED << ctorVars, storeContacted, chanClosed, wg, cancelled,
                    readyToFinish, openTx, closeVars, prodVars,
                    attempts, executed, failures, drainFrom, lastRet >>

TickFlushSkipsPersist ==
    /\ ppc = "mainSelect"
    /\ ppc' = "loopTop"
    /\ trigger' = "none"
    /\ UNCHANGED << ctorVars, storeContacted, chanVars, wg, cancelled,
                    readyToFinish, batch, openTx, closeVars, prodVars, histVars >>

\* The second select, case <-ticker.C: persist whatever the batch holds.
\* The ticker runs for as long as the goroutine does, so whenever the
\* persister waits in this select a tick may be there or arrive.
TickFlush ==
    /\ ppc = "mainSelect"
    /\ ppc' = "persist"
    /\ trigger' = "tick"
    /\ UNCHANGED << ctorVars, storeContacted, chanVars, wg, cancelled,
                    readyToFinish, batch, openTx, closeVars, prodVars, histVars >>

BatchAfterPersistKeeps(b) == b

LoopAfterPersistStopsOnError(ret) == IF ret = "err" THEN "stopped" ELSE "loopTop"

\* Where the persister goes when persistBatchFn returned ret: an error is
\* logged, and in either case the loop goes on with a fresh batch.
LoopAfterPersist(ret) == "loopTop"

\* The batch after a persistBatchFn call returned: batch = &pgx.Batch{}.
BatchAfterPersist(b) == << >>

PersistBeginAlwaysQueries ==
    /\ ppc = "persist"
    /\ storeContacted' = TRUE
    /\ attempts' = Append(attempts, [ops |-> batch, trigger |-> trigger])
    /\ openTx' = openTx + 1
    /\ ppc' = "txOpen"
    /\ UNCHANGED << ctorVars, chanVars, wg, cancelled, readyToFinish, closeVars,
                    prodVars, dequeued, mappedLists, executed, drainFrom,
                    batch, trigger, failures, lastRet >>

\* persistBatchFn, first part: nothing to do for an empty batch, else
\* psqlPool.Begin(c.ctx).  Begin fails when the context is done or the store
\* refuses; the error goes back to the loop, which logs it and resets the
\* batch.
PersistBegin ==
    /\ ppc = "persist"
    /\ IF Len(batch) = 0
       THEN /\ lastRet' = "nil"
            /\ batch' = BatchAfterPersist(batch)
            /\ ppc' = LoopAfterPersist("nil")
            /\ trigger' = "none"
            /\ UNCHANGED << storeContacted, openTx, attempts, failures >>
       ELSE /\ storeContacted' = TRUE
            /\ attempts' = Append(attempts, [ops |-> batch, trigger |-> trigger])
            /\ \/ /\ ~cancelled
                  /\ openTx' = openTx + 1
                  /\ ppc' = "txOpen"
                  /\ UNCHANGED << batch, trigger, failures, lastRet >>
               \/ /\ cancelled \/ failures < MaxFailures
                  /\ failures' = IF cancelled THEN failures ELSE failures + 1
                  /\ lastRet' = "err"
                  /\ batch' = BatchAfterPersist(batch)
                  /\ ppc' = LoopAfterPersist("err")
                  /\ trigger' = "none"
                  /\ UNCHANGED openTx
    /\ UNCHANGED << ctorVars, chanVars, wg, cancelled, readyToFinish, closeVars,
                    prodVars, dequeued, mappedLists, executed, drainFrom >>

\* What persistBatchFn returns when pulling the results ended with an error
\* that is not "no result": errors.Wrap(err, ...) with err the nil error
\* Begin returned, and errors.Wrap of a nil error is nil.
QueryErrorReturn == "nil"

\* persistBatchFn, second part: SendBatch, pull the results, tx.Commit.
\*   - the results end with "no result" and Commit succeeds;
\*   - the results end with "no result" and Commit fails;
\*   - the results end with another error: the function returns without
\*     Commit or Rollback, the transaction stays open.
PersistExec ==
    /\ ppc = "txOpen"
    /\ \/ /\ ~cancelled
          /\ executed' = executed \o batch
          /\ openTx' = openTx - 1
          /\ lastRet' = "nil"
          /\ UNCHANGED failures
       \/ /\ cancelled \/ failures < MaxFailures
          /\ failures' = IF cancelled THEN failures ELSE failures + 1
          /\ openTx' = openTx - 1
          /\ lastRet' = "err"
          /\ UNCHANGED executed
       \/ /\ cancelled \/ failures < MaxFailures
          /\ failures' = IF cancelled THEN failures ELSE failures + 1
          /\ lastRet' = QueryErrorReturn
          /\ UNCHANGED << executed, openTx >>
    /\ batch' = BatchAfterPersist(batch)
    /\ ppc' = LoopAfterPersist(lastRet')
    /\ trigger' = "none"
    /\ UNCHANGED << ctorVars, storeContacted, chanVars, wg, cancelled,
                    readyToFinish, closeVars, prodVars, dequeued,
                    mappedLists, attempts, drainFrom >>

\* ------------------------------------------------------------------------
\* The producers: PersistToDB.

persistCCapPlusOne == batchSize + 1

\* make(chan interface{}, batchSize)
persistCCap == batchSize

\* The buffer of persistC after a send of rec completed.
ChanSend(q, rec) == Append(q, rec)

\* The producers run the same code and differ in name only, so it is enough
\* to look at the runs in which the first call of all is made by FirstProducer.
FirstProducer == "p1"

MayCall(p) == p = FirstProducer \/ nextSeq[FirstProducer] >= 1

\* A producer calls PersistToDB with a record: c.persistC <- persItem
\* panics on a closed channel, completes at once when the buffer has room,
\* and otherwise leaves the producer blocked in the send.
PersistToDB(p) ==
    /\ ctorPc = "ok"
    /\ pending[p] = NoRecord
    /\ ~panicked[p]
    /\ Handed < MaxRecords
    /\ MayCall(p)
    /\ \E shape \in RecordShapes :
          LET rec == MkRecord(shape, p, nextSeq[p] + 1) IN
          IF chanClosed
          THEN /\ panicked' = [panicked EXCEPT ![p] = TRUE]
               /\ UNCHANGED << persistC, accepted, pending >>
          ELSE IF Len(persistC) < persistCCap
          THEN /\ persistC' = ChanSend(persistC, rec)
               /\ accepted' = Append(accepted, rec)
               /\ UNCHANGED << panicked, pending >>
          ELSE /\ pending' = [pending EXCEPT ![p] = rec]
               /\ UNCHANGED << persistC, accepted, panicked >>
    /\ nextSeq' = [nextSeq EXCEPT ![p] = @ + 1]
    /\ UNCHANGED << ctorVars, storeContacted, chanClosed, wg, cancelled, loopVars,
                    openTx, closeVars, histVars >>

\* A producer blocked in the send goes on: the send completes when the
\* buffer has room, and panics when the channel was closed meanwhile.
PersistToDBUnblocked(p) ==
    /\ pending[p] # NoRecord
    /\ IF chanClosed
       THEN /\ panicked' = [panicked EXCEPT ![p] = TRUE]
            /\ UNCHANGED << persistC, accepted >>
       ELSE /\ Len(persistC) < persistCCap
            /\ persistC' = ChanSend(persistC, pending[p])
            /\ accepted' = Append(accepted, pending[p])
            /\ UNCHANGED panicked
    /\ pending' = [pending EXCEPT ![p] = NoRecord]
    /\ UNCHANGED << ctorVars, storeContacted, chanClosed, wg, cancelled, loopVars,
                    openTx, closeVars, nextSeq, histVars >>

\* ------------------------------------------------------------------------
\* Close(), and the cancellation of the context given to NewDBClient.

\* Close() is called: it blocks in c.doneC <- struct{}{} until the persister
\* receives (LoopTop).
CloseCall ==
    /\ ctorPc = "ok"
    /\ closePc = "idle"
    /\ closePc' = "sendDone"
    /\ UNCHANGED << ctorVars, storeContacted, chanVars, wg, cancelled, loopVars,
                    openTx, poolClosed, prodVars, histVars >>

WaitReturnsAtOnce(n) == TRUE

\* c.wg.Wait() returns when the counter is zero.
WaitReturns(n) == n = 0

CloseWait ==
    /\ closePc = "wgWait"
    /\ WaitReturns(wg)
    /\ closePc' = "poolClose"
    /\ UNCHANGED << ctorVars, storeContacted, chanVars, wg, cancelled, loopVars,
                    openTx, poolClosed, prodVars, histVars >>

\* c.psqlPool.Close() returns when every connection is back in the pool; a
\* transaction that was neither committed nor rolled back keeps its
\* connection ("TODO: fix hanging call").
ClosePool ==
    /\ closePc = "poolClose"
    /\ openTx = 0
    /\ poolClosed' = TRUE
    /\ closePc' = "closeChan"
    /\ UNCHANGED << ctorVars, storeContacted, chanVars, wg, cancelled, loopVars,
                    openTx, prodVars, histVars >>

\* close(c.persistC), and Close() returns.
CloseChan ==
    /\ closePc = "closeChan"
    /\ chanClosed' = TRUE
    /\ closePc' = "returned"
    /\ UNCHANGED << ctorVars, storeContacted, persistC, wg, cancelled, loopVars,
                    openTx, poolClosed, prodVars, histVars >>

\* The caller of NewDBClient cancels the context.
CancelCtx ==
    /\ ctorPc = "ok"
    /\ ~cancelled
    /\ cancelled' = TRUE
    /\ UNCHANGED << ctorVars, storeContacted, chanVars, wg, loopVars, openTx, closeVars, prodVars, histVars >>

\* ------------------------------------------------------------------------

Next ==
    \/ NewDBClient
    \/ launchPersister
    \/ LoopTop
    \/ Dequeue
    \/ TickFlush
    \/ PersistBegin
    \/ PersistExec
    \/ \E p \in Producers : PersistToDB(p)
    \/ \E p \in Producers : PersistToDBUnblocked(p)
    \/ CloseCall
    \/ CloseWait
    \/ ClosePool
    \/ CloseChan
    \/ CancelCtx

Spec == Init /\ [][Next]_vars

\* The runs in which the persister stays Running: nobody calls Close() and
\* nobody cancels the context.
RunningNext ==
    \/ NewDBClient
    \/ launchPersister
    \/ LoopTop
    \/ Dequeue
    \/ TickFlush
    \/ PersistBegin
    \/ PersistExec
    \/ \E p \in Producers : PersistToDB(p)
    \/ \E p \in Producers : PersistToDBUnblocked(p)

\* Scheduling: a goroutine that can take a step eventually takes it, a
\* store call returns, a blocked send completes once the buffer has room,
\* the ticker keeps firing, and the select over persistC and ticker.C picks
\* at random among its ready cases, so a case that is ready again and again
\* is taken eventually.  Nothing obliges a producer to call PersistToDB.
RunningFairness ==
    /\ WF_vars(launchPersister)
    /\ WF_vars(LoopTop)
    /\ SF_vars(Dequeue)
    /\ SF_vars(TickFlush)
    /\ WF_vars(PersistBegin)
    /\ WF_vars(PersistExec)
    /\ \A p \in Producers : SF_vars(PersistToDBUnblocked(p))

RunningSpec == Init /\ [][RunningNext]_vars /\ RunningFairness

TypeOK ==
    /\ ctorPc \in {"start", "ok", "err"}
    /\ ppc \in {"none", "launched", "loopTop", "mainSelect", "persist", "txOpen",
                "stopped"}
    /\ closePc \in {"idle", "sendDone", "wgWait", "poolClose", "closeChan", "returned"}
    /\ wg \in 0..1
    /\ openTx \in 0..(MaxFailures + 1)
    /\ failures \in 0..MaxFailures

\* ------------------------------------------------------------------------
\* Derived notions used by the properties.

Range(s) == { s[i] : i \in 1..Len(s) }

\* Every query the persister appended to a batch so far, in order.
AllMapped == Flatten(mappedLists)

\* Every query handed to persistBatchFn so far, in order.
AllAttempted == Flatten([i \in 1..Len(attempts) |-> attempts[i].ops])

\* The persister states of the specification.
PersisterState ==
    IF ppc \in {"none", "launched"} THEN "NotStarted"
    ELSE IF ppc = "stopped" THEN "Stopped"
    ELSE IF readyToFinish THEN "Draining"
    ELSE "Running"

\* The persister is inside persistBatchFn.
InCommit == ppc \in {"persist", "txOpen"}

\* The step is the persister receiving a record from persistC.
DequeueStep == ppc = "mainSelect" /\ Len(dequeued') = Len(dequeued) + 1

\* Queries of records of one producer keep the producer's order.
ProducerOrdered(qs) ==
    \A i, j \in 1..Len(qs) :
        (i < j /\ qs[i].prod = qs[j].prod) => qs[i].seq <= qs[j].seq

\* ------------------------------------------------------------------------
\* C1: the persister never reaches Stopped while the open batch holds
\* queries: the batch is persisted before the loop is left.
C1_NoStopWithOpenBatch == ppc = "stopped" => batch = << >>

NoDuplicates(sq) == \A i, j \in 1..Len(sq) : sq[i] = sq[j] => i = j

\* C2: while no store call has failed, the queries of the committed
\* transactions, in commit order, are a prefix of the queries mapped from
\* the received records in the order they were received; each list is one
\* the type switch produces for a record that a producer sent, no query is
\* committed twice, and the queries of one
\* producer's records keep the order in which the producer sent them.
C2_OrderAndConservation ==
    /\ Len(mappedLists) = Len(dequeued)
    /\ \A i \in 1..Len(dequeued) :
          /\ mappedLists[i] \in RecordQueries(dequeued[i])
          /\ dequeued[i] \in Range(accepted)
    /\ failures = 0 =>
          /\ NoDuplicates(executed)
          /\ IsPrefix(executed, AllMapped)
          /\ ProducerOrdered(executed)

C2_Witness ==
    /\ failures = 0
    /\ Len(executed) >= 3
    /\ \E i, j \in 1..Len(executed) : executed[i].prod # executed[j].prod
    /\ \E i \in 1..Len(executed) : executed[i].seq = 2

\* C3: once the queries of a received record are appended and the batch
\* holds batchSize queries or more, the persister is inside persistBatchFn
\* with the whole batch until the batch is reset, so no record is received
\* in between; and when every received record gave one query and no
\* persistBatchFn call came from the ticker, there is one call per
\* batchSize records, each with exactly batchSize queries.
OneQueryRecords == \A i \in 1..Len(mappedLists) : Len(mappedLists[i]) = 1

SizeTriggeredOnly == \A i \in 1..Len(attempts) : attempts[i].trigger = "size"

C3_SizeTrigger ==
    /\ Len(batch) >= batchSize => InCommit /\ trigger = "size"
    /\ (ppc = "txOpen" /\ trigger = "size") =>
          /\ attempts[Len(attempts)].ops = batch
          /\ attempts[Len(attempts)].trigger = "size"
    /\ (OneQueryRecords /\ SizeTriggeredOnly /\ ppc # "persist") =>
          /\ Len(attempts) = Len(dequeued) \div batchSize
          /\ \A i \in 1..Len(attempts) :
                attempts[i].ops =
                    [k \in 1..batchSize |-> AllMapped[(i - 1) * batchSize + k]]

C3_Witness ==
    /\ OneQueryRecords
    /\ SizeTriggeredOnly
    /\ Len(dequeued) = batchSize
    /\ Len(attempts) = 1
    /\ Len(attempts[1].ops) = batchSize
    /\ ppc = "loopTop"

\* C5: persistC never holds more than batchSize records; the records whose
\* PersistToDB call returned are exactly the records received by the
\* persister followed by the records still buffered, in the same order and
\* each once; a producer whose call has not returned still holds its
\* record; and while the persister is Running every record whose call
\* returned is eventually received: the persister never stops receiving
\* for good while persistC holds a record again and again.
QueueConserves ==
    /\ Len(persistC) <= batchSize
    /\ accepted = dequeued \o persistC
    /\ NoDuplicates(accepted)
    /\ \A p \in Producers :
          /\ pending[p] # NoRecord => pending[p] \notin Range(accepted)
          /\ \A n \in 1..nextSeq[p] :
                \/ \E i \in 1..Len(accepted) :
                      accepted[i].prod = p /\ accepted[i].seq = n
                \/ pending[p] # NoRecord /\ pending[p].seq = n
                \/ panicked[p] /\ n = nextSeq[p]

C5_Backpressure ==
    /\ []QueueConserves
    /\ []<><<Dequeue>>_vars \/ <>[](persistC = << >>)

C5_Witness ==
    /\ Len(persistC) = batchSize
    /\ ~chanClosed
    /\ PersisterState = "Running"
    /\ \E p \in Producers : pending[p] # NoRecord

\* C6: receiving a record of a type the type switch does not know adds no
\* query: the batch, readyToFinish and the history of persistBatchFn calls
\* are unchanged and the persister is back at the top of its loop; no query
\* ever comes from such a record.
C6_UnknownStep ==
    [][ (DequeueStep /\ Head(persistC).kind = "Unknown") =>
            /\ batch' = batch
            /\ readyToFinish' = readyToFinish
            /\ attempts' = attempts
            /\ executed' = executed
            /\ openTx' = openTx
            /\ ppc' = "loopTop" ]_vars

C6_Witness ==
    /\ \E i, j \in 1..Len(dequeued) :
          /\ i < j
          /\ dequeued[i].kind = "Unknown"
          /\ dequeued[j].kind # "Unknown"
          /\ \E k \in 1..Len(executed) :
                executed[k].prod = dequeued[j].prod /\ executed[k].seq = dequeued[j].seq

\* C8: when NewDBClient returned an error no persister was started and no
\* client was returned, and with an empty login string the store was never
\* called; the persister exists only when NewDBClient returned a client.
C8_ConstructorContract ==
    /\ ctorErr # "none" => ppc = "none" /\ ctorPc = "err"
    /\ ctorErr = "emptyLogin" => ~storeContacted
    /\ ppc # "none" => ctorPc = "ok" /\ ctorErr = "none"

C8_Witness == ctorPc = "err" /\ ctorErr = "initTables" /\ storeContacted

\* C9: Close() releases the pool only after its signal was received and the
\* persister left its loop, and closes persistC only after the pool: the
\* pool is never closed while the persister is Running or Draining or
\* inside persistBatchFn.
C9_CloseOrdering ==
    /\ closePc \in {"wgWait", "poolClose", "closeChan", "returned"} => readyToFinish
    /\ closePc \in {"poolClose", "closeChan", "returned"} => ppc = "stopped"
    /\ poolClosed => /\ ppc = "stopped"
                     /\ closePc \in {"closeChan", "returned"}
                     /\ ~InCommit
    /\ chanClosed => poolClosed /\ closePc = "returned"

C9_Witness == poolClosed /\ ~chanClosed /\ Len(attempts) >= 1

\* C10: no PersistToDB call hits the closed persistC, and no record is left
\* in persistC once the persister has left its loop.
C10_EnqueueAfterShutdownSafe ==
    /\ \A p \in Producers : ~panicked[p]
    /\ ppc = "stopped" => persistC = << >>

\* C4: while the persister is Running every query appended to the batch is
\* eventually handed to persistBatchFn, whatever the size of the batch:
\* the queries mapped so far are those handed over followed by the open
\* batch, and again and again all of them have been handed over.  The
\* ticker case calls persistBatchFn once, with every query the batch holds
\* (fewer than batchSize), and the batch is empty afterwards.
OpenQueries == IF ppc = "txOpen" THEN << >> ELSE batch

C4_TimeTrigger ==
    /\ [](AllMapped = AllAttempted \o OpenQueries)
    /\ []<>(AllAttempted = AllMapped)
    /\ [][ (ppc = "mainSelect" /\ ppc' = "persist" /\ trigger' = "tick") =>
              batch' = batch /\ attempts' = attempts ]_vars
    /\ [][ (ppc = "persist" /\ trigger = "tick" /\ batch # << >> /\ ppc' # "persist") =>
              /\ attempts' = Append(attempts, [ops |-> batch, trigger |-> "tick"])
              /\ Len(batch) < batchSize ]_vars
    /\ [][ (InCommit /\ ~InCommit') => batch' = << >> ]_vars

C4_Witness ==
    /\ Len(attempts) = 1
    /\ attempts[1].trigger = "tick"
    /\ attempts[1].ops = AllMapped
    /\ Len(AllMapped) < batchSize
    /\ Len(AllMapped) > 0
    /\ PersisterState = "Running"
    /\ ppc = "loopTop"

\* C7: a persistBatchFn call that fails leaves the persister Running at the
\* top of its loop with an empty batch and leaves persistC and the blocked
\* producers as they were; only a store failure makes a call fail, so the
\* calls after it succeed: again and again every query mapped so far is
\* committed unless it was in a batch whose call failed, and no producer
\* stays blocked for ever.
AttemptDone(i) == i < Len(attempts) \/ ~InCommit

AttemptCommitted(i) == attempts[i].ops[1] \in Range(executed)

FailedAttempts ==
    { i \in 1..Len(attempts) : AttemptDone(i) /\ ~AttemptCommitted(i) }

LostQueries == UNION { Range(attempts[i].ops) : i \in FailedAttempts }

FailedReturn == InCommit /\ batch # << >> /\ ~InCommit' /\ executed' = executed

C7_CommitFailureIsolation ==
    /\ [](Cardinality(FailedAttempts) <= failures)
    /\ [][ FailedReturn =>
              /\ ppc' = "loopTop"
              /\ batch' = << >>
              /\ UNCHANGED << readyToFinish, persistC, pending, wg >> ]_vars
    /\ []<>(/\ ~InCommit
            /\ batch = << >>
            /\ Range(AllMapped) \subseteq Range(executed) \cup LostQueries)
    /\ \A p \in Producers : []<>(pending[p] = NoRecord)

C7_Witness ==
    /\ PersisterState = "Running"
    /\ \E i, j \in 1..Len(attempts) :
          /\ i < j
          /\ i \in FailedAttempts
          /\ AttemptCommitted(j)

\* ------------------------------------------------------------------------
\* The type switch on its own: the persister waits in its second select
\* with one record of any type in persistC, and receives it.

\* Every shape of record the type switch tells apart.
MapperShapes ==
    { [kind |-> "HostInfo", identified |-> idf, attrs |-> as] :
          idf \in BOOLEAN, as \in SUBSET AttrTypes }
    \cup { [kind |-> k, identified |-> FALSE, attrs |-> {}] :
             k \in {"PeerInfo", "ConnectionAttempt", "ConnEvent", "IpInfo", "Unknown"} }

\* NewDBClient returned a client, the persister is in its second select with
\* an empty batch, and one PersistToDB call has put a record into persistC.
MapperInit ==
    /\ ctorPc = "ok"
    /\ ctorErr = "none"
    /\ storeContacted = TRUE
    /\ \E shape \in MapperShapes, p \in Producers :
          /\ persistC = << MkRecord(shape, p, 1) >>
          /\ accepted = << MkRecord(shape, p, 1) >>
          /\ nextSeq = [q \in Producers |-> IF q = p THEN 1 ELSE 0]
    /\ chanClosed = FALSE
    /\ wg = 1
    /\ cancelled = FALSE
    /\ ppc = "mainSelect"
    /\ readyToFinish = FALSE
    /\ batch = << >>
    /\ trigger = "none"
    /\ openTx = 0
    /\ poolClosed = FALSE
    /\ closePc = "idle"
    /\ pending = [p \in Producers |-> NoRecord]
    /\ panicked = [p \in Producers |-> FALSE]
    /\ dequeued = << >>
    /\ mappedLists = << >>
    /\ attempts = << >>
    /\ executed = << >>
    /\ failures = 0
    /\ drainFrom = -1
    /\ lastRet = "none"

MapperNext == Dequeue

MapperSpec == MapperInit /\ [][MapperNext]_vars

\* ------------------------------------------------------------------------
\* C11: the operations appended for a record are those of the mapping
\* table, in its order: HostInfo gives Upsert(host_info), then
\* Upsert(peer_info) exactly when the host is identified, then one operation
\* per recognized attribute and none for another attribute; PeerInfo,
\* ConnectionAttempt and IpInfo give one; ConnEvent gives Insert(conn_event)
\* and then Update(last_activity); any other record gives none.  Every
\* operation carries the data of the record it comes from, and the batch
\* holds exactly the appended operations.
Stmts(qs) == [k \in 1..Len(qs) |-> qs[k].stmt]

TableAttrStmt(att) ==
    CASE att = "BeaconStatusStamped" -> "UpsertEthereumNodeStatus"
      [] att = "BeaconMetadataStamped" -> "UpsertEthereumNodeMetadata"
      [] att = "EnrNode" -> "UpsertEnrInfo"

TableRecognized == {"BeaconStatusStamped", "BeaconMetadataStamped", "EnrNode"}

TableHolds(rec, st) ==
    CASE rec.kind = "HostInfo" ->
            LET fixed == IF rec.identified
                         THEN << "UpsertHostInfo", "UpdatePeerInfo" >>
                         ELSE << "UpsertHostInfo" >>
                recog == rec.attrs \cap TableRecognized
            IN /\ IsPrefix(fixed, st)
               /\ Len(st) = Len(fixed) + Cardinality(recog)
               /\ { st[k] : k \in (Len(fixed) + 1)..Len(st) }
                     = { TableAttrStmt(a) : a \in recog }
      [] rec.kind = "PeerInfo" -> st = << "UpdatePeerInfo" >>
      [] rec.kind = "ConnectionAttempt" -> st = << "UpdateConnAttempt" >>
      [] rec.kind = "ConnEvent" ->
            st = << "InsertNewConnEvent", "UpdateLastActivityTimestamp" >>
      [] rec.kind = "IpInfo" -> st = << "UpsertIpInfo" >>
      [] OTHER -> st = << >>

C11_MapperFanOut ==
    /\ Len(mappedLists) = Len(dequeued)
    /\ batch = AllMapped
    /\ \A i \in 1..Len(dequeued) :
          /\ TableHolds(dequeued[i], Stmts(mappedLists[i]))
          /\ \A k \in 1..Len(mappedLists[i]) :
                /\ mappedLists[i][k].prod = dequeued[i].prod
                /\ mappedLists[i][k].seq = dequeued[i].seq

C11_Witness ==
    \E i \in 1..Len(dequeued) :
        /\ dequeued[i].kind = "HostInfo"
        /\ dequeued[i].identified
        /\ dequeued[i].attrs = AttrTypes
        /\ Len(mappedLists[i]) = 5
        /\ mappedLists[i][5].stmt = "UpsertEthereumNodeStatus"

\* C12: the open batch never holds more than batchSize operations.
C12_BatchBound == Len(batch) <= batchSize

\* C13: a persistBatchFn call on a non-empty batch that returns without
\* having committed the transaction returns an error, and it returns nil
\* only when the transaction was committed.
C13_CommitErrorPropagation ==
    [][ (ppc = "txOpen" /\ ppc' # "txOpen") =>
            /\ executed' = executed => lastRet' = "err"
            /\ lastRet' = "nil" =>
                  /\ executed' = executed \o batch
                  /\ openTx' = openTx - 1 ]_vars

\* C14: whenever a persistBatchFn call returns, whatever called it and
\* whatever it returned, the open batch is empty; no operation is handed to
\* persistBatchFn twice, and an operation that was handed over is neither
\* in the open batch nor comes from a record that is still in persistC or
\* in a blocked PersistToDB call.
QueriesOf(rec) == UNION { Range(qs) : qs \in RecordQueries(rec) }

C14_ResetNoRetry ==
    /\ [][ (InCommit /\ ~InCommit') =>
              /\ batch' = << >>
              /\ trigger \in {"size", "tick"} ]_vars
    /\ [](NoDuplicates(AllAttempted))
    /\ [](ppc # "txOpen" => Range(batch) \cap Range(AllAttempted) = {})
    /\ [](\A i \in 1..Len(persistC) :
             QueriesOf(persistC[i]) \cap Range(AllAttempted) = {})
    /\ [](\A p \in Producers :
             pending[p] # NoRecord =>
                 QueriesOf(pending[p]) \cap Range(AllAttempted) = {})

C14_Witness ==
    /\ ~InCommit
    /\ batch = << >>
    /\ \E i, j \in 1..Len(attempts) :
          /\ i < j
          /\ i \in FailedAttempts
          /\ attempts[i].trigger = "size"
          /\ attempts[j].trigger = "tick"

\* C15: the persister state only moves forward, one state at a time, along
\* NotStarted, Running, Draining, Stopped: readyToFinish is never reset,
\* Stopped is entered from Draining only, and once Stopped the persister
\* receives no record and calls persistBatchFn no more.
StateRank(st) ==
    CASE st = "NotStarted" -> 0
      [] st = "Running" -> 1
      [] st = "Draining" -> 2
      [] st = "Stopped" -> 3

C15_MonotonicState ==
    [][ /\ StateRank(PersisterState') \in
              {StateRank(PersisterState), StateRank(PersisterState) + 1}
        /\ readyToFinish => readyToFinish'
        /\ ppc = "stopped" =>
              UNCHANGED << ppc, readyToFinish, batch, dequeued, mappedLists,
                           attempts, executed, openTx, wg >> ]_vars

C15_Witness ==
    /\ PersisterState = "Stopped"
    /\ cancelled
    /\ closePc = "sendDone"
    /\ persistC # << >>
    /\ Len(attempts) >= 1

\* C16: the persister leaves its loop only with persistC empty, and when it
\* does every record whose PersistToDB call had returned, those that were
\* in persistC when the persister noticed the shutdown signal among them,
\* has been received and mapped.
C16_DrainCompleteness ==
    [][ (ppc # "stopped" /\ ppc' = "stopped") =>
            /\ persistC = << >>
            /\ persistC' = << >>
            /\ drainFrom >= 0
            /\ dequeued' = accepted'
            /\ Len(mappedLists') = Len(accepted')
            /\ \A i \in (drainFrom + 1)..Len(accepted') :
                  mappedLists'[i] \in RecordQueries(accepted'[i]) ]_vars

C16_Witness ==
    /\ ppc = "stopped"
    /\ drainFrom >= 0
    /\ Len(dequeued) >= drainFrom + 2
    /\ \A p \in Producers : pending[p] = NoRecord /\ ~panicked[p]
    /\ persistC = << >>

\* ------------------------------------------------------------------------
\* Shutdown under fair scheduling: as RunningFairness, and a Close() call
\* that can go on does.  Nothing obliges anybody to call Close(), to cancel
\* the context or to call PersistToDB, and the producers stop after
\* MaxRecords records.
ShutdownFairness ==
    /\ RunningFairness
    /\ WF_vars(CloseWait)
    /\ WF_vars(ClosePool)
    /\ WF_vars(CloseChan)

ShutdownSpec == Init /\ [][Next]_vars /\ ShutdownFairness

\* A shutdown signal is there for the persister to see.
SignalRaised == cancelled \/ closePc = "sendDone"

\* C17: once the context is cancelled or Close() was called, the persister
\* reaches Stopped.  A persister that passes the first select while a signal
\* is raised sets readyToFinish, and between two passes it receives at most
\* one record or serves at most one tick.
C17_PersisterTermination ==
    /\ []<>(~(Running /\ (cancelled \/ closePc # "idle")))
    /\ [][ (ppc = "loopTop" /\ ppc' = "mainSelect" /\ SignalRaised) =>
              readyToFinish' ]_vars
    /\ [][ (dequeued' # dequeued \/ (trigger' = "tick" /\ trigger # "tick")) =>
              /\ ppc = "mainSelect"
              /\ ppc' \in {"loopTop", "persist"}
              /\ Len(dequeued') <= Len(dequeued) + 1 ]_vars
    /\ [][ ppc' = "mainSelect" => ppc \in {"loopTop", "mainSelect"} ]_vars

C17_Witness ==
    /\ ppc = "stopped"
    /\ cancelled
    /\ closePc = "idle"
    /\ drainFrom >= 0
    /\ Len(dequeued) > drainFrom

\* C18: a persistBatchFn call with an empty batch returns nil at once: no
\* transaction is begun, nothing is sent to the store, and the persister is
\* back at the top of its loop with an empty batch.
C18_EmptyFlushNoOp ==
    [][ (ppc = "persist" /\ batch = << >> /\ ppc' # "persist") =>
            /\ lastRet' = "nil"
            /\ ppc' = "loopTop"
            /\ batch' = << >>
            /\ UNCHANGED << openTx, attempts, executed, failures, storeContacted,
                            persistC, readyToFinish, wg >> ]_vars

C18_Witness ==
    /\ ppc = "loopTop"
    /\ lastRet = "nil"
    /\ attempts = << >>
    /\ openTx = 0
    /\ executed = << >>

\* C19: every Close() call returns, also when the context was cancelled
\* before or while Close() was called.
C19_CloseTerminates == []<>(closePc \in {"idle", "returned"})

\* C20: with a healthy store, every persistBatchFn call that has returned
\* and whose batch held an operation of a record received after the
\* persister noticed the shutdown signal has committed its batch, whichever
\* signal it was.
DrainAttempts ==
    { i \in 1..Len(attempts) :
        \E k \in (drainFrom + 1)..Len(mappedLists) :
            Range(mappedLists[k]) \cap Range(attempts[i].ops) # {} }

C20_DrainCommitsAnyTrigger ==
    (failures = 0 /\ drainFrom >= 0) =>
        \A i \in DrainAttempts : AttemptDone(i) => AttemptCommitted(i)

\* C21: every transaction persistBatchFn begins is committed or rolled back
\* by the time the call returns: no transaction is open while the persister
\* is outside persistBatchFn, at most one is open inside it, and Close()
\* never waits at psqlPool.Close() for a connection that a transaction of a
\* returned call still holds.
C21_NoTransactionLeftOpen ==
    /\ ppc # "txOpen" => openTx = 0
    /\ ppc = "txOpen" => openTx = 1
    /\ closePc = "poolClose" => openTx = 0

====
